---- MODULE Spec2Model ----
(***************************************************************************)
(* The custom elements of acsd-components.js: <frmwrk-alert> (visibility   *)
(* lifecycle, dismiss timer, alert-dismissed event), <frmwrk-badge>        *)
(* (variant class) and <frmwrk-theme-toggle> (document dark flag,          *)
(* localStorage key "theme", theme-changed event).                         *)
(*                                                                         *)
(* A DOM attribute is a string, or Null when the attribute is absent.      *)
(* setAttribute/removeAttribute run attributeChangedCallback before they   *)
(* return (custom element reactions), so a callback that writes an         *)
(* attribute nests the callback of that write.                             *)
(***************************************************************************)
EXTENDS Integers, Sequences, FiniteSets, TLC

VARIABLES alert, timers, alertEvents, alertOp, fresh, requests, closes,
          removedPending, variantChangedPending, badge,
          pc, doc, toggles, positions, themeEvents, themeOp, toggleHist

alertVars == <<alert, timers, alertEvents, alertOp, fresh, requests, closes,
               removedPending, variantChangedPending>>
themeVars == <<pc, doc, toggles, positions, themeEvents, themeOp, toggleHist>>
vars == <<alert, timers, alertEvents, alertOp, fresh, requests, closes,
          removedPending, variantChangedPending, badge,
          pc, doc, toggles, positions, themeEvents, themeOp, toggleHist>>

(***************************************************************************)
(* Bounds of the model.                                                    *)
(***************************************************************************)
\* Click listeners the close button may accumulate.
MaxListeners == 2
\* Dismiss completions (setTimeout callbacks) scheduled over a run.
MaxEvents == 2
\* Theme toggle elements of the page.
NumToggles == 2
\* Click listeners a toggle's button may accumulate.
MaxToggleListeners == 2
\* theme-changed events dispatched over a run.
MaxThemeEvents == 3

(***************************************************************************)
(* Values.                                                                 *)
(***************************************************************************)
\* JavaScript null: the value of an absent attribute.
Null == "<null>"

\* The variants the alert's style sheet has a rule for.
AlertVariants == {"info", "success", "warning", "error"}
\* The variants the badge's style sheet has a rule for.
BadgeVariants == {"primary", "accent", "subtle"}

\* Values written to the alert's variant attribute (Null removes it).
AlertVariantInputs == {Null, "", "warning", "bogus"}
\* Values written to the badge's variant attribute (Null removes it).
BadgeVariantInputs == {Null, "", "primary", "accent", "bogus"}
\* Values written to the alert's dismissible attribute (Null removes it).
DismissibleInputs == {Null, "", "true"}
\* Values written to the alert's open attribute (Null removes it).
OpenInputs == {Null, "false", "true", ""}

\* JavaScript `value || fallback` on an attribute value: null and "" are falsy.
OrDefault(value, fallback) == IF value \in {Null, ""} THEN fallback ELSE value

(***************************************************************************)
(* <frmwrk-alert>.  A world w = [el, timers, events] is the element, the   *)
(* number of pending dismiss completions and the alert-dismissed events    *)
(* dispatched so far (their detail.variant).                               *)
(*   el.cls          className of the .alert container: the variant class  *)
(*                   and whether the class "dismissing" is on it           *)
(*   el.hasButton    a .close-button exists in the shadow root             *)
(*   el.clickL/keyL  click / keydown listeners on that button              *)
(*   el._closeButton what this._closeButton refers to                      *)
(***************************************************************************)
AlertAttrNames == {"variant", "dismissible", "open"}

\* constructor: fields, then _render() of the fresh fields.
AlertConstructed ==
  [ variantAttr |-> Null, dismissibleAttr |-> Null, openAttr |-> Null,
    _variant |-> "info", _dismissible |-> FALSE, _open |-> TRUE,
    cls |-> [variant |-> "info", dismissing |-> FALSE],
    hasButton |-> FALSE, clickL |-> 0, keyL |-> 0,
    _closeButton |-> "undefined", connected |-> FALSE ]

GetAttr(el, name) ==
  CASE name = "variant" -> el.variantAttr
    [] name = "dismissible" -> el.dismissibleAttr
    [] name = "open" -> el.openAttr

PutAttr(el, name, value) ==
  CASE name = "variant" -> [el EXCEPT !.variantAttr = value]
    [] name = "dismissible" -> [el EXCEPT !.dismissibleAttr = value]
    [] name = "open" -> [el EXCEPT !.openAttr = value]

\* _render: innerHTML is rebuilt, so the container loses "dismissing", and the
\* close button, when there is one, is a new element without listeners.
_render(w) ==
  [w EXCEPT !.el.cls = [variant |-> w.el._variant, dismissing |-> FALSE],
            !.el.hasButton = w.el._dismissible,
            !.el.clickL = 0,
            !.el.keyL = 0,
            !.el._closeButton = IF @ = "current" THEN "stale" ELSE @]

\* _updateVariant: className is overwritten with "alert <variant>".
_updateVariant(w) ==
  [w EXCEPT !.el.cls = [variant |-> w.el._variant, dismissing |-> FALSE]]

\* _updateDismissible that re-renders only when the button is wanted.
_updateDismissible_keepsButton(w) ==
  IF w.el._dismissible
    THEN [_render(w) EXCEPT !.el._closeButton = "current", !.el.clickL = @ + 1]
    ELSE w

\* _updateDismissible: re-render, then one click listener on the new button.
_updateDismissible(w) ==
  LET r == _render(w) IN
  IF r.el._dismissible /\ r.el.hasButton
    THEN [r EXCEPT !.el._closeButton = "current", !.el.clickL = @ + 1]
    ELSE IF r.el._dismissible
      THEN [r EXCEPT !.el._closeButton = "null"]
      ELSE r

RECURSIVE attributeChangedCallback(_, _, _, _)
RECURSIVE setAttribute(_, _, _)
RECURSIVE removeAttribute(_, _)
RECURSIVE _updateVisibility(_)

\* Element.setAttribute on an observed attribute: the callback runs with the
\* old and the new value, also when they are equal.
setAttribute(w, name, value) ==
  LET old == GetAttr(w.el, name) IN
  attributeChangedCallback([w EXCEPT !.el = PutAttr(@, name, value)],
                           name, old, value)

\* Element.removeAttribute: nothing happens when the attribute is absent.
removeAttribute(w, name) ==
  LET old == GetAttr(w.el, name) IN
  IF old = Null THEN w
  ELSE attributeChangedCallback([w EXCEPT !.el = PutAttr(@, name, Null)],
                                name, old, Null)

\* _updateVisibility that leaves the attribute of an open alert in place.
_updateVisibility_keepsAttribute(w) ==
  IF ~w.el._open THEN setAttribute(w, "open", "false")
  ELSE w

_updateVisibility(w) ==
  IF ~w.el._open THEN setAttribute(w, "open", "false")
  ELSE removeAttribute(w, "open")

attributeChangedCallback(w, name, oldValue, newValue) ==
  IF oldValue = newValue THEN w
  ELSE CASE name = "variant" ->
              _updateVariant([w EXCEPT !.el._variant = OrDefault(newValue, "info")])
         [] name = "dismissible" ->
              _updateDismissible([w EXCEPT !.el._dismissible = (newValue # Null)])
         [] name = "open" ->
              _updateVisibility(
                [w EXCEPT !.el._open = (newValue # "false" /\ newValue # Null)])

\* connectedCallback: a fresh arrow function is added as click listener and
\* another as keydown listener, when a close button exists.
connectedCallback(w) ==
  IF w.el.hasButton
    THEN [w EXCEPT !.el._closeButton = "current",
                   !.el.clickL = @ + 1,
                   !.el.keyL = @ + 1,
                   !.el.connected = TRUE]
    ELSE [w EXCEPT !.el._closeButton = "null", !.el.connected = TRUE]

\* disconnectedCallback: removeEventListener('click', this._dismiss) names a
\* function that was never registered, so no listener is removed.
disconnectedCallback(w) == [w EXCEPT !.el.connected = FALSE]

\* _dismiss: the class "dismissing" is added and a completion is scheduled.
_dismiss(w) ==
  [w EXCEPT !.el.cls.dismissing = TRUE, !.timers = @ + 1]

\* The setTimeout callback of _dismiss.
\* A completion that does nothing on an alert that has left the document.
DismissTimeout_attachedOnly(w) ==
  IF w.el.connected
    THEN LET s == setAttribute([w EXCEPT !.el._open = FALSE], "open", "false") IN
         [s EXCEPT !.events = Append(@, s.el._variant), !.timers = @ - 1]
    ELSE [w EXCEPT !.timers = @ - 1]

\* A completion whose event carries the variant attribute as written.
DismissTimeout_attributePayload(w) ==
  LET s == setAttribute([w EXCEPT !.el._open = FALSE], "open", "false") IN
  [s EXCEPT !.events = Append(@, s.el.variantAttr), !.timers = @ - 1]

DismissTimeout(w) ==
  LET s == setAttribute([w EXCEPT !.el._open = FALSE], "open", "false") IN
  [s EXCEPT !.events = Append(@, s.el._variant), !.timers = @ - 1]

\* show() that sets the flag and leaves the attribute alone.
show_flagOnly(w) == [w EXCEPT !.el._open = TRUE]

show(w) == removeAttribute([w EXCEPT !.el._open = TRUE], "open")

\* dismiss() that respects the dismissible flag.
dismiss_guarded(w) == IF w.el._dismissible THEN _dismiss(w) ELSE w

dismiss(w) == _dismiss(w)

\* Every listener of an event on the close button calls _dismiss once.
RECURSIVE RunListeners(_, _)
RunListeners(w, n) == IF n = 0 THEN w ELSE RunListeners(_dismiss(w), n - 1)

\* Enter or Space on the focused close button: each keydown listener
\* dismisses and prevents the default; without a keydown listener the
\* button's native activation fires click.
KeyListeners(el) == IF el.keyL > 0 THEN el.keyL ELSE el.clickL

(***************************************************************************)
(* The alert's states, as the lifecycle names them.                        *)
(***************************************************************************)
\* The closed visual flag: :host([open="false"]) is display: none.
Closed(el) == el.openAttr = "false"
IsOpenState(el) == el._open /\ ~Closed(el)
IsClosedState(el) == ~el._open /\ Closed(el)

(***************************************************************************)
(* <frmwrk-badge>.                                                         *)
(***************************************************************************)
BadgeConstructed == [variantAttr |-> Null, _variant |-> "primary", cls |-> "primary"]

\* FrmwrkBadge._updateVariant: className becomes "badge <variant>".
BadgeUpdateVariant(b) == [b EXCEPT !.cls = b._variant]

\* FrmwrkBadge.attributeChangedCallback
BadgeAttributeChanged(b, name, oldValue, newValue) ==
  IF name = "variant" /\ oldValue # newValue
    THEN BadgeUpdateVariant([b EXCEPT !._variant = OrDefault(newValue, "primary")])
    ELSE b

\* setAttribute/removeAttribute of the badge's variant.
BadgeWriteVariant(b, value) ==
  IF value = Null /\ b.variantAttr = Null THEN b
  ELSE BadgeAttributeChanged([b EXCEPT !.variantAttr = value],
                             "variant", b.variantAttr, value)

(***************************************************************************)
(* <frmwrk-theme-toggle>.  A world tw = [doc, toggles, pos, events]:       *)
(*   doc.dark     documentElement carries the class theme-dark             *)
(*   doc.theme    localStorage item "theme" (Null when there is none)      *)
(*   toggles[i]   state: "absent" (not created), "markup" (in the page's   *)
(*                markup, not yet upgraded), "detached", "attached";       *)
(*                listeners: click listeners on its button; icon           *)
(*   pos[i]       the position attribute, this._position and the four      *)
(*                offsets of the host's inline style                       *)
(*   events       detail.theme of the theme-changed events dispatched      *)
(***************************************************************************)
ToggleIds == 1..NumToggles

\* Values localStorage may hold under "theme" when the page loads.
StoredInputs == {Null, "light", "dark", "other"}

ToggleAbsent == [state |-> "absent", listeners |-> 0, icon |-> "none"]
ToggleInMarkup == [state |-> "markup", listeners |-> 0, icon |-> "none"]

\* constructor: _render() puts the sun icon in the button.
ToggleConstructed == [state |-> "detached", listeners |-> 0, icon |-> "sun"]

ThemeName(dark) == IF dark THEN "dark" ELSE "light"

\* The offsets of the host's style; Anchored is 'var(--space-lg, 1.5rem)'.
OffsetKeys == {"top", "right", "bottom", "left"}
Anchored == "var(--space-lg, 1.5rem)"
Auto == "auto"

\* A corner: the two named offsets anchored, the other two 'auto'.
Corner(a, b) == [k \in OffsetKeys |-> IF k \in {a, b} THEN Anchored ELSE Auto]

\* The own keys of the object literal `positions`.
PositionNames == {"top-left", "top-right", "bottom-left", "bottom-right"}

PositionTable(name) ==
  CASE name = "top-left" -> Corner("top", "left")
    [] name = "top-right" -> Corner("top", "right")
    [] name = "bottom-left" -> Corner("bottom", "left")
    [] name = "bottom-right" -> Corner("bottom", "right")

\* Names every object literal inherits from Object.prototype: positions[name]
\* is then a truthy value (a function) without own enumerable keys.
InheritedNames == {"toString", "constructor"}

\* Values written to the toggle's position attribute (Null removes it).
PositionInputs ==
  {Null, "", "top-left", "top-right", "bottom-left", "bottom-right",
   "middle", "toString"}

\* positions[this._position] || positions['top-right'], as the keys the
\* forEach of _updatePosition visits with their values.
PositionLookup(name) ==
  IF name \in PositionNames THEN PositionTable(name)
  ELSE IF name \in InheritedNames THEN [k \in {} |-> Auto]
  ELSE PositionTable("top-right")

\* constructor: _position = 'top-right', then _render() -> _updatePosition().
PositionConstructed ==
  [attr |-> Null, _position |-> "top-right", style |-> Corner("top", "right")]

_updatePosition(tw, i) ==
  LET pos == PositionLookup(tw.pos[i]._position) IN
  [tw EXCEPT !.pos[i].style =
     [k \in OffsetKeys |-> IF k \in DOMAIN pos THEN pos[k] ELSE @[k]]]

\* FrmwrkThemeToggle.attributeChangedCallback
ToggleAttributeChangedCallback(tw, i, name, oldValue, newValue) ==
  IF name = "position" /\ oldValue # newValue
    THEN _updatePosition(
           [tw EXCEPT !.pos[i]._position = OrDefault(newValue, "top-right")], i)
    ELSE tw

\* setAttribute/removeAttribute of the toggle's position.
ToggleWritePosition(tw, i, value) ==
  IF value = Null /\ tw.pos[i].attr = Null THEN tw
  ELSE ToggleAttributeChangedCallback([tw EXCEPT !.pos[i].attr = value], i,
                                      "position", tw.pos[i].attr, value)

_updateIcon(tw, i, theme) ==
  [tw EXCEPT !.toggles[i].icon = IF theme = "dark" THEN "moon" ELSE "sun"]

\* _loadSavedTheme that also clears the class when the saved theme is not dark.
_loadSavedTheme_mirrors(tw, i) ==
  LET savedTheme == tw.doc.theme IN
  IF savedTheme = "dark"
    THEN _updateIcon([tw EXCEPT !.doc.dark = TRUE], i, "dark")
    ELSE _updateIcon([tw EXCEPT !.doc.dark = FALSE], i, "light")

_loadSavedTheme(tw, i) ==
  LET savedTheme == tw.doc.theme IN
  IF savedTheme = "dark"
    THEN _updateIcon([tw EXCEPT !.doc.dark = TRUE], i, "dark")
    ELSE _updateIcon(tw, i, "light")

\* _toggleTheme that stores the theme it found instead of the new one.
_toggleTheme_storesOld(tw, i) ==
  LET currentTheme == IF tw.doc.dark THEN "dark" ELSE "light"
      newTheme == IF currentTheme = "dark" THEN "light" ELSE "dark"
  IN _updateIcon([tw EXCEPT !.doc.dark = (newTheme = "dark"),
                            !.doc.theme = currentTheme,
                            !.events = Append(@, newTheme)],
                 i, newTheme)

_toggleTheme(tw, i) ==
  LET currentTheme == IF tw.doc.dark THEN "dark" ELSE "light"
      newTheme == IF currentTheme = "dark" THEN "light" ELSE "dark"
  IN _updateIcon([tw EXCEPT !.doc.dark = (newTheme = "dark"),
                            !.doc.theme = newTheme,
                            !.events = Append(@, newTheme)],
                 i, newTheme)

\* FrmwrkThemeToggle.connectedCallback: a fresh arrow function is added as
\* click listener at every attachment, then the saved theme is loaded.
ToggleConnectedCallback(tw, i) ==
  _loadSavedTheme([tw EXCEPT !.toggles[i].listeners = @ + 1,
                             !.toggles[i].state = "attached"], i)

\* FrmwrkThemeToggle.disconnectedCallback: removeEventListener('click',
\* this._toggleTheme) names a function that was never registered.
ToggleDisconnectedCallback(tw, i) ==
  [tw EXCEPT !.toggles[i].state = "detached"]

\* customElements.define upgrades a toggle of the markup: constructor, then
\* connectedCallback.
ToggleUpgrade(tw, i) ==
  ToggleConnectedCallback([tw EXCEPT !.toggles[i] = ToggleConstructed,
                                     !.pos[i] = PositionConstructed], i)

\* customElements.define('frmwrk-theme-toggle'): the toggles of the markup
\* are upgraded in document order.
RECURSIVE DefineToggles(_, _)
DefineToggles(tw, i) ==
  IF i > NumToggles THEN tw
  ELSE DefineToggles(IF tw.toggles[i].state = "markup"
                       THEN ToggleUpgrade(tw, i) ELSE tw, i + 1)

\* A script without the auto-initialize block.
AutoInitialize_absent(tw) == tw

\* The auto-initialize function at the end of the script.
AutoInitialize(tw) ==
  LET savedTheme == tw.doc.theme IN
  IF savedTheme = "dark" THEN [tw EXCEPT !.doc.dark = TRUE] ELSE tw

\* One _toggleTheme call, with the document state it found kept as history
\* (the last two calls).
Toggled(tw, i) ==
  [_toggleTheme(tw, i) EXCEPT
     !.hist = IF Len(tw.hist) < 2 THEN Append(tw.hist, tw.doc)
              ELSE <<tw.hist[2], tw.doc>>]

\* Every click listener of the button calls _toggleTheme once.
RECURSIVE RunToggleListeners(_, _, _)
RunToggleListeners(tw, i, n) ==
  IF n = 0 THEN tw ELSE RunToggleListeners(Toggled(tw, i), i, n - 1)

(***************************************************************************)
(* State machine of the alert and the badge.                               *)
(***************************************************************************)
NoThemeOp ==
  [op |-> "none", id |-> 0, darkBefore |-> FALSE, themeBefore |-> Null,
   eventsBefore |-> 0, listenersBefore |-> 0]

World == [el |-> alert, timers |-> timers, events |-> alertEvents]

\* What an operation found: recorded with the operation in alertOp.
Op(op, name, value) ==
  [ op |-> op, name |-> name, value |-> value,
    openBefore |-> alert._open, closedBefore |-> Closed(alert),
    dismissibleBefore |-> alert._dismissible,
    dismissingBefore |-> alert.cls.dismissing,
    timersBefore |-> timers, eventsBefore |-> Len(alertEvents),
    fresh |-> fresh ]

Commit(w, op) ==
  /\ alert' = w.el
  /\ timers' = w.timers
  /\ alertEvents' = w.events
  /\ alertOp' = op
  /\ closes' = IF ~Closed(alert) /\ Closed(w.el) THEN closes + 1 ELSE closes
  \* The alert left the document while a completion was pending, and has not
  \* been attached again.
  /\ removedPending' = CASE op.op = "disconnect" -> timers > 0
                         [] op.op = "connect" -> FALSE
                         [] OTHER -> removedPending
  \* The alert's variant has changed while a completion was pending, since
  \* the last dismiss request made with none pending.
  /\ variantChangedPending' =
       CASE timers > 0 /\ w.el._variant # alert._variant -> TRUE
         [] timers = 0 /\ w.timers > 0 -> FALSE
         [] OTHER -> variantChangedPending

\* The dismiss requests made so far, and whether each found the alert open
\* and dismissible.
Requested ==
  [n |-> requests.n + 1,
   onOpenDismissible |-> requests.onOpenDismissible
                           /\ alert._dismissible /\ IsOpenState(alert)]

\* Room for n more completions within the bound.
Room(n) == timers + Len(alertEvents) + n <= MaxEvents

InitAlert ==
  /\ alert = AlertConstructed
  /\ timers = 0
  /\ alertEvents = <<>>
  /\ alertOp = [ op |-> "construct", name |-> Null, value |-> Null,
                 openBefore |-> TRUE, closedBefore |-> FALSE,
                 dismissibleBefore |-> FALSE, dismissingBefore |-> FALSE,
                 timersBefore |-> 0, eventsBefore |-> 0, fresh |-> TRUE ]
  /\ fresh = TRUE
  /\ requests = [n |-> 0, onOpenDismissible |-> TRUE]
  /\ closes = 0
  /\ removedPending = FALSE
  /\ variantChangedPending = FALSE
  /\ badge = BadgeConstructed

\* The page before the script runs, without theme toggles.
InitThemeIdle ==
  /\ pc = "start"
  /\ doc = [dark |-> FALSE, theme |-> Null]
  /\ toggles = [i \in ToggleIds |-> ToggleAbsent]
  /\ positions = [i \in ToggleIds |-> PositionConstructed]
  /\ themeEvents = <<>>
  /\ themeOp = NoThemeOp
  /\ toggleHist = <<>>

Init == InitAlert /\ InitThemeIdle

SetVariant ==
  \E v \in AlertVariantInputs :
    /\ Commit(IF v = Null THEN removeAttribute(World, "variant")
              ELSE setAttribute(World, "variant", v),
              Op("setAttribute", "variant", v))
    /\ UNCHANGED <<fresh, requests, badge, themeVars>>

SetDismissible ==
  \E v \in DismissibleInputs :
    /\ Commit(IF v = Null THEN removeAttribute(World, "dismissible")
              ELSE setAttribute(World, "dismissible", v),
              Op("setAttribute", "dismissible", v))
    /\ UNCHANGED <<fresh, requests, badge, themeVars>>

SetOpen ==
  \E v \in OpenInputs :
    /\ Commit(IF v = Null THEN removeAttribute(World, "open")
              ELSE setAttribute(World, "open", v),
              Op("setAttribute", "open", v))
    /\ fresh' = FALSE
    /\ UNCHANGED <<requests, badge, themeVars>>

Connect ==
  /\ ~alert.connected
  /\ alert.clickL < MaxListeners
  /\ Commit(connectedCallback(World), Op("connect", Null, Null))
  /\ UNCHANGED <<fresh, requests, badge, themeVars>>

Disconnect ==
  /\ alert.connected
  /\ Commit(disconnectedCallback(World), Op("disconnect", Null, Null))
  /\ UNCHANGED <<fresh, requests, badge, themeVars>>

\* One user click on the close button of a displayed, attached alert.
ClickClose ==
  /\ alert.connected /\ alert.hasButton /\ ~Closed(alert)
  /\ Room(alert.clickL)
  /\ Commit(RunListeners(World, alert.clickL), Op("click", Null, Null))
  /\ requests' = Requested
  /\ fresh' = FALSE
  /\ UNCHANGED <<badge, themeVars>>

\* One Enter/Space key press on the close button.
KeyClose ==
  /\ alert.connected /\ alert.hasButton /\ ~Closed(alert)
  /\ Room(KeyListeners(alert))
  /\ Commit(RunListeners(World, KeyListeners(alert)), Op("key", Null, Null))
  /\ requests' = Requested
  /\ fresh' = FALSE
  /\ UNCHANGED <<badge, themeVars>>

CallDismiss ==
  /\ Room(1)
  /\ Commit(dismiss(World), Op("dismiss", Null, Null))
  /\ requests' = Requested
  /\ fresh' = FALSE
  /\ UNCHANGED <<badge, themeVars>>

CallShow ==
  /\ Commit(show(World), Op("show", Null, Null))
  /\ fresh' = FALSE
  /\ UNCHANGED <<requests, badge, themeVars>>

\* A pending completion fires.
Timeout ==
  /\ timers > 0
  /\ Commit(DismissTimeout(World), Op("timeout", Null, Null))
  /\ UNCHANGED <<fresh, requests, badge, themeVars>>

BadgeSetVariant ==
  \E v \in BadgeVariantInputs :
    /\ badge' = BadgeWriteVariant(badge, v)
    /\ UNCHANGED <<alertVars, themeVars>>

Next ==
  \/ SetVariant
  \/ SetDismissible
  \/ SetOpen
  \/ Connect
  \/ Disconnect
  \/ ClickClose
  \/ KeyClose
  \/ CallDismiss
  \/ CallShow
  \/ Timeout

Spec == Init /\ [][Next]_vars

\* setTimeout callbacks that are pending do run.
SpecLive == Spec /\ WF_vars(Timeout)

(***************************************************************************)
(* The variant rendering of the badge and of the alert on its own.         *)
(***************************************************************************)
NextVariant ==
  \/ BadgeSetVariant
  \/ SetVariant
  \/ SetDismissible

SpecVariant == Init /\ [][NextVariant]_vars

(***************************************************************************)
(* State machine of the theme toggles.  The script runs to its end before  *)
(* any user event or later DOM operation: DefineToggle, then AutoInit.     *)
(***************************************************************************)
ThemeWorld ==
  [doc |-> doc, toggles |-> toggles, pos |-> positions, events |-> themeEvents,
   hist |-> toggleHist]

ThemeOpOf(op, i) ==
  [op |-> op, id |-> i, darkBefore |-> doc.dark, themeBefore |-> doc.theme,
   eventsBefore |-> Len(themeEvents),
   listenersBefore |-> IF i \in ToggleIds THEN toggles[i].listeners ELSE 0]

ThemeCommit(tw, op) ==
  /\ doc' = tw.doc
  /\ toggles' = tw.toggles
  /\ positions' = tw.pos
  /\ themeEvents' = tw.events
  /\ toggleHist' = tw.hist
  /\ themeOp' = op
  /\ UNCHANGED <<alertVars, badge>>

\* Any page: the dark class may be in the markup, any value may be stored,
\* and each toggle is in the markup or not.
InitTheme ==
  /\ InitAlert
  /\ pc = "start"
  /\ doc \in [dark : BOOLEAN, theme : StoredInputs]
  /\ toggles \in [ToggleIds -> {ToggleAbsent, ToggleInMarkup}]
  /\ positions = [i \in ToggleIds |-> PositionConstructed]
  /\ themeEvents = <<>>
  /\ themeOp = NoThemeOp
  /\ toggleHist = <<>>

DefineToggle ==
  /\ pc = "start"
  /\ pc' = "defined"
  /\ ThemeCommit([DefineToggles(ThemeWorld, 1) EXCEPT !.hist = <<>>],
                 ThemeOpOf("define", 0))

AutoInit ==
  /\ pc = "defined"
  /\ pc' = "loaded"
  /\ ThemeCommit([AutoInitialize(ThemeWorld) EXCEPT !.hist = <<>>],
                 ThemeOpOf("autoinit", 0))

\* document.createElement('frmwrk-theme-toggle')
ToggleCreate(i) ==
  /\ pc = "loaded"
  /\ toggles[i].state = "absent"
  /\ pc' = pc
  /\ ThemeCommit([ThemeWorld EXCEPT !.toggles[i] = ToggleConstructed,
                                    !.pos[i] = PositionConstructed],
                 ThemeOpOf("create", i))

ToggleConnect(i) ==
  /\ pc = "loaded"
  /\ toggles[i].state = "detached"
  /\ toggles[i].listeners < MaxToggleListeners
  /\ pc' = pc
  /\ ThemeCommit([ToggleConnectedCallback(ThemeWorld, i) EXCEPT !.hist = <<>>],
                 ThemeOpOf("connect", i))

ToggleDisconnect(i) ==
  /\ pc = "loaded"
  /\ toggles[i].state = "attached"
  /\ pc' = pc
  /\ ThemeCommit(ToggleDisconnectedCallback(ThemeWorld, i),
                 ThemeOpOf("disconnect", i))

\* One user click on the button of an attached toggle.
ToggleClick(i) ==
  /\ pc = "loaded"
  /\ toggles[i].state = "attached"
  /\ Len(themeEvents) + toggles[i].listeners <= MaxThemeEvents
  /\ pc' = pc
  /\ ThemeCommit(RunToggleListeners(ThemeWorld, i, toggles[i].listeners),
                 ThemeOpOf("click", i))

NextTheme ==
  \/ DefineToggle
  \/ AutoInit
  \/ \E i \in ToggleIds : ToggleCreate(i)
  \/ \E i \in ToggleIds : ToggleConnect(i)
  \/ \E i \in ToggleIds : ToggleDisconnect(i)
  \/ \E i \in ToggleIds : ToggleClick(i)

SpecTheme == InitTheme /\ [][NextTheme]_vars

\* The pages that do not carry the dark class in their markup.
InitThemeClear == InitTheme /\ ~doc.dark

SpecThemeClear == InitThemeClear /\ [][NextTheme]_vars

(***************************************************************************)
(* The position attribute of constructed toggles.                          *)
(***************************************************************************)
Constructed(i) == toggles[i].state \in {"detached", "attached"}

\* setAttribute('position', v) / removeAttribute('position') on toggle i.
SetPositionFrom(i, values) ==
  \E v \in values :
    /\ Constructed(i)
    /\ pc' = pc
    /\ ThemeCommit(ToggleWritePosition(ThemeWorld, i, v),
                   ThemeOpOf("position", i))

\* Toggles created by script, not yet attached.
InitPosition ==
  /\ InitAlert
  /\ pc = "loaded"
  /\ doc = [dark |-> FALSE, theme |-> Null]
  /\ toggles = [i \in ToggleIds |-> ToggleConstructed]
  /\ positions = [i \in ToggleIds |-> PositionConstructed]
  /\ themeEvents = <<>>
  /\ themeOp = NoThemeOp
  /\ toggleHist = <<>>

NextPosition == \E i \in ToggleIds : SetPositionFrom(i, PositionInputs)

SpecPosition == InitPosition /\ [][NextPosition]_vars

\* Theme operations interleaved with position changes.
FramePositionInputs == {Null, "bottom-left"}

SetPositionLoaded ==
  \E i \in ToggleIds : pc = "loaded" /\ SetPositionFrom(i, FramePositionInputs)

NextThemeFrame == NextTheme \/ SetPositionLoaded

SpecThemeFrame == InitTheme /\ [][NextThemeFrame]_vars

(***************************************************************************)
(* Properties.                                                             *)
(***************************************************************************)
DismissRequests == {"click", "key", "dismiss"}
LastAlertEvent == alertEvents[Len(alertEvents)]
LastThemeEvent == themeEvents[Len(themeEvents)]

\* C1: show() on a closed alert (open="false") leaves it open: the internal
\* open flag is true and open="false" is no longer on the host.
C1_ShowReopens ==
  (alertOp.op = "show" /\ alertOp.closedBefore)
    => (alert._open /\ alert.openAttr # "false")

\* C2: when the only dismiss request so far was made on an open dismissible
\* alert and no completion is pending any more, the alert went to closed
\* exactly once and exactly one alert-dismissed event was dispatched; a
\* completion's event carries the alert's variant.
C2_OneRequestOneEvent ==
  /\ (requests.n = 1 /\ requests.onOpenDismissible /\ timers = 0)
       => (Len(alertEvents) = 1 /\ closes = 1 /\ IsClosedState(alert))
  /\ (alertOp.op = "timeout" => LastAlertEvent = alert._variant)

\* C3: a dismiss request made while a completion is pending schedules no
\* further completion.
C3_SecondRequestNoEffect ==
  (alertOp.op \in DismissRequests /\ alertOp.timersBefore > 0)
    => timers = alertOp.timersBefore

\* C4: before any open-attribute write, show() or dismiss request the alert is
\* open; the first write of the open attribute leaves it open for every value
\* but "false", and closed, without exit animation, timer or event, for "false".
C4_InitialState ==
  /\ fresh => IsOpenState(alert)
  /\ (alertOp.op = "setAttribute" /\ alertOp.name = "open" /\ alertOp.fresh
        /\ alertOp.value # Null)
       => IF alertOp.value = "false"
            THEN /\ IsClosedState(alert)
                 /\ ~alert.cls.dismissing
                 /\ timers = 0
                 /\ alertEvents = <<>>
            ELSE IsOpenState(alert)

\* C5: one click on an attached toggle flips the document dark flag, leaves
\* the new theme in storage and dispatches exactly one theme-changed event
\* carrying it.
C5_ClickFlipsOnce ==
  themeOp.op = "click"
    => /\ doc.dark = ~themeOp.darkBefore
       /\ doc.theme = ThemeName(doc.dark)
       /\ Len(themeEvents) = themeOp.eventsBefore + 1
       /\ LastThemeEvent = ThemeName(doc.dark)

\* C6 as stated: after two consecutive _toggleTheme calls the document flag
\* and the stored value are what they were before the first.
C6_TwoTogglesRestoreBoth ==
  Len(toggleHist) = 2 => doc = toggleHist[1]

\* C6 as amended: after two consecutive _toggleTheme calls the document flag
\* is what it was before the first, and the stored value is the name of that
\* flag's theme (so it is the old stored value when that named the flag).
C6_TwoTogglesRestoreFlag ==
  Len(toggleHist) = 2
    => /\ doc.dark = toggleHist[1].dark
       /\ doc.theme = ThemeName(toggleHist[1].dark)
       /\ (toggleHist[1].theme = ThemeName(toggleHist[1].dark)
             => doc = toggleHist[1])

\* Two consecutive toggles that started with nothing stored.
C6_Witness ==
  /\ Len(toggleHist) = 2
  /\ toggleHist[1].theme = Null
  /\ doc.theme = "light"

\* C7: once the script has run and a toggle has been attached, the document
\* dark flag is set exactly when "dark" is stored; the first click with
\* nothing stored sets the flag, stores "dark" and dispatches theme "dark".
C7_LoadedThemeIsStored ==
  /\ (pc = "loaded" /\ \E i \in ToggleIds : toggles[i].listeners > 0)
       => (doc.dark <=> doc.theme = "dark")
  /\ (themeOp.op = "click" /\ themeOp.themeBefore = Null)
       => (doc.dark /\ doc.theme = "dark" /\ themeEvents = <<"dark">>)

\* C8: a variant attribute that names no recognized variant leaves the
\* default variant class on the container (primary for the badge, info for
\* the alert).
C8_UnrecognizedFallsBack ==
  /\ badge.variantAttr \notin BadgeVariants => badge.cls = "primary"
  /\ alert.variantAttr \notin AlertVariants => alert.cls.variant = "info"

\* C9 as stated: a dismiss request on an alert whose dismissible flag is false
\* starts no exit transition and schedules no completion.
C9_OnlyDismissibleDismisses ==
  (alertOp.op \in DismissRequests /\ ~alertOp.dismissibleBefore)
    => (timers = alertOp.timersBefore /\ ~alert.cls.dismissing)

\* C9 as amended: only a dismiss request schedules a completion; a request
\* through the close control finds the dismissible flag true; dismiss()
\* starts the exit transition and schedules one completion whatever the flag
\* is; and a completion leaves the alert closed.
C9_DismissRequestStarts ==
  /\ timers > alertOp.timersBefore => alertOp.op \in DismissRequests
  /\ alertOp.op \in {"click", "key"} => alertOp.dismissibleBefore
  /\ alertOp.op = "dismiss"
       => (timers = alertOp.timersBefore + 1 /\ alert.cls.dismissing)
  /\ alertOp.op = "timeout" => IsClosedState(alert)

\* dismiss() has started the exit transition of an alert without dismissible.
C9_Witness ==
  /\ alertOp.op = "dismiss"
  /\ ~alertOp.dismissibleBefore
  /\ alert.dismissibleAttr = Null
  /\ timers = 1
  /\ alert.cls.dismissing

\* C10: the close button exists exactly when the dismissible attribute is
\* present (and the dismissible flag is then true), so no activation of the
\* control happens on an alert without it.
C10_CloseControlIffDismissible ==
  /\ alert.hasButton <=> alert.dismissibleAttr # Null
  /\ alert._dismissible <=> alert.dismissibleAttr # Null
  /\ alert.hasButton => alert.clickL >= 1
  /\ alertOp.op \in {"click", "key"} => alertOp.dismissibleBefore

\* The dismissible attribute has just been removed from an alert that had a
\* close button, and the button is gone.
C10_Witness ==
  /\ alertOp.op = "setAttribute"
  /\ alertOp.name = "dismissible"
  /\ alertOp.value = Null
  /\ alertOp.dismissibleBefore
  /\ ~alert.hasButton
  /\ alert.connected

\* The offsets the documentation gives for a position attribute.
ExpectedOffsets(attr) ==
  IF attr \in PositionNames THEN PositionTable(attr) ELSE PositionTable("top-right")

\* C11: the four offsets of every toggle are those of its current position
\* attribute: the named corner for the four corner names, top-right for any
\* other value and for no attribute.
C11_OffsetsFollowAttribute ==
  \A i \in ToggleIds : positions[i].style = ExpectedOffsets(positions[i].attr)

\* The lifecycle of the alert is as the last operation found it: the open
\* flag, the closed visual flag, the dismissing visual flag and the pending
\* completions.
LifecycleUnchanged ==
  /\ alert._open = alertOp.openBefore
  /\ Closed(alert) = alertOp.closedBefore
  /\ alert.cls.dismissing = alertOp.dismissingBefore
  /\ timers = alertOp.timersBefore

\* C12: a completion that fires on an alert removed from the document since
\* the dismiss request changes no alert state and dispatches no event.
C12_DetachedCompletionIsNoOp ==
  (alertOp.op = "timeout" /\ removedPending)
    => (/\ Len(alertEvents) = alertOp.eventsBefore
        /\ alert._open = alertOp.openBefore
        /\ Closed(alert) = alertOp.closedBefore)

\* C13: a change of the variant attribute puts the new variant's class on the
\* container and leaves the lifecycle as it was.
C13_VariantChangeKeepsLifecycle ==
  (alertOp.op = "setAttribute" /\ alertOp.name = "variant")
    => (/\ alert.cls.variant = OrDefault(alertOp.value, "info")
        /\ LifecycleUnchanged)

\* C14: adding or removing the dismissible attribute leaves the lifecycle as
\* it was, and an activation of the close control issues a dismiss request.
C14_DismissibleChangeKeepsLifecycle ==
  /\ (alertOp.op = "setAttribute" /\ alertOp.name = "dismissible")
       => LifecycleUnchanged
  /\ alertOp.op \in {"click", "key"} => timers > alertOp.timersBefore

\* C17: the container carries the class dismissing only while a dismiss
\* completion is pending.
C17_DismissingOnlyWhilePending ==
  alert.cls.dismissing => timers > 0

\* C18: the internal open flag is false exactly when the host carries
\* open="false".
C18_OpenFlagMatchesHost ==
  ~alert._open <=> Closed(alert)

\* An alert was open, a dismiss completed on it, and show() has been called
\* since.
C18_Witness ==
  /\ alertOp.op = "show"
  /\ closes > 0
  /\ ~alert._open
  /\ Closed(alert)

\* C15: until the auto-initialize block has run, no toggle has been
\* constructed, rendered or attached.
C15_AutoInitBeforeComponents ==
  pc # "loaded" => \A i \in ToggleIds : ~Constructed(i)

\* C16: a pending dismiss completion leads to a closed alert and one more
\* alert-dismissed event, whatever is done to the alert meanwhile.
C16_DismissCompletes ==
  \A n \in 0..MaxEvents :
    (timers > 0 /\ Len(alertEvents) = n)
      ~> (IsClosedState(alert) /\ Len(alertEvents) > n)

\* A completion fired on an alert that had been removed from the document
\* while it was pending.
C16_Witness ==
  /\ alertOp.op = "timeout"
  /\ removedPending
  /\ IsClosedState(alert)
  /\ Len(alertEvents) > alertOp.eventsBefore

\* C19: on a page that had no dark class before the script, once the script
\* has loaded the dark class is on the document exactly when "dark" is stored.
C19_FlagMirrorsStorage ==
  pc = "loaded" => (doc.dark <=> doc.theme = "dark")

\* A click has left the document dark while another toggle is attached too.
C19_Witness ==
  /\ pc = "loaded"
  /\ themeOp.op = "click"
  /\ doc.dark
  /\ doc.theme = "dark"
  /\ \A i \in ToggleIds : toggles[i].state = "attached"

ThemeUnchanged ==
  /\ doc.dark = themeOp.darkBefore
  /\ doc.theme = themeOp.themeBefore
  /\ Len(themeEvents) = themeOp.eventsBefore

\* C20: position changes, creation and detachment leave the class, the
\* stored value and the events alone; an attachment (by upgrade or by
\* insertion) stores nothing, dispatches nothing, and can only add the class,
\* and only when "dark" is stored.
C20_ThemeFrame ==
  /\ themeOp.op \in {"position", "disconnect", "create"} => ThemeUnchanged
  /\ themeOp.op \in {"connect", "define"} =>
       /\ doc.theme = themeOp.themeBefore
       /\ Len(themeEvents) = themeOp.eventsBefore
       /\ doc.dark # themeOp.darkBefore =>
            (~themeOp.darkBefore /\ doc.dark /\ doc.theme = "dark")

\* A toggle that has been moved is inserted into a dark document that has
\* seen a click.
C20_Witness ==
  /\ themeOp.op = "connect"
  /\ Len(themeEvents) > 0
  /\ doc.dark
  /\ positions[themeOp.id].attr = "bottom-left"

\* C21: an operation that dispatched alert-dismissed leaves the alert closed
\* (open flag false, open="false" on the host), and the event carries the
\* variant the alert has then.
C21_EventOnClosedWithCurrentVariant ==
  Len(alertEvents) > alertOp.eventsBefore
    => (/\ IsClosedState(alert)
        /\ LastAlertEvent = alert._variant)

\* The only dismiss request so far has completed, and the variant was
\* changed while it was pending.
C21_Witness ==
  /\ alertOp.op = "timeout"
  /\ requests.n = 1
  /\ variantChangedPending
  /\ Len(alertEvents) = 1
  /\ LastAlertEvent = "warning"

C23_EventsBoundedByCloses ==
  Len(alertEvents) <= closes

\* The icon of the page-wide theme.
ThemeIcon == IF doc.dark THEN "moon" ELSE "sun"

\* C24: after a click on a toggle, every attached toggle shows the icon of
\* the document's theme.
C24_IconsFollowTheme ==
  themeOp.op = "click"
    => \A i \in ToggleIds :
         toggles[i].state = "attached" => toggles[i].icon = ThemeIcon

====
